---- MODULE Spec2Model ----
(***************************************************************************)
(* A model of the colorjs library: src/src/Color.js (class Color) and the  *)
(* two combinator catalogs BlendMode / AlphaBlendMode.                      *)
(*                                                                         *)
(* Numbers.  A JavaScript number is modelled as an exact rational          *)
(* [n |-> numerator, d |-> denominator] in lowest terms with d > 0.  The   *)
(* three non-finite IEEE values have d = 0: NaN = 0/0, +Infinity = 1/0,    *)
(* -Infinity = -1/0; they arise only from a division by zero.  The inputs  *)
(* in this form are dyadic rationals, for which every sum, difference and  *)
(* product the model forms is exactly representable as an IEEE double, so  *)
(* that exact arithmetic is what the code computes there.  Where rounding  *)
(* decides the outcome a number is held as the IEEE double itself, and its *)
(* sums and differences are rounded to nearest as the code's are.          *)
(***************************************************************************)
EXTENDS Integers, Sequences, FiniteSets

VARIABLES privates, made, ret

vars == <<privates, made, ret>>

----------------------------------------------------------------------------
(* Rational arithmetic *)

Abs(i) == IF i < 0 THEN -i ELSE i

Sign(i) == IF i < 0 THEN -1 ELSE IF i > 0 THEN 1 ELSE 0

RECURSIVE GCD(_, _)
GCD(a, b) == IF b = 0 THEN a ELSE GCD(b, a % b)

\* n/d in lowest terms, d # 0
Q(n, d) ==
  LET g == GCD(Abs(n), Abs(d))
  IN  [n |-> Sign(d) * (n \div g), d |-> Abs(d) \div g]

I(k) == [n |-> k, d |-> 1]

QAdd(x, y) ==
  LET g == GCD(x.d, y.d)
      l == (x.d \div g) * y.d
  IN  Q(x.n * (l \div x.d) + y.n * (l \div y.d), l)

QNeg(x) == [n |-> -x.n, d |-> x.d]

Mul(x, y) ==
  LET g1 == GCD(Abs(x.n), y.d)
      g2 == GCD(Abs(y.n), x.d)
  IN  Q((x.n \div g1) * (y.n \div g2), (x.d \div g2) * (y.d \div g1))

\* x / y as IEEE division of finite operands: x/0 is +-Infinity, 0/0 is NaN
Div(x, y) ==
  IF y.n = 0 THEN [n |-> Sign(x.n), d |-> 0]
  ELSE Mul(x, [n |-> Sign(y.n) * y.d, d |-> Abs(y.n)])

----------------------------------------------------------------------------
(* IEEE 754 doubles.  Where the rounding of a sum matters a number is held *)
(* as the double it is: [sign |-> -1, 0 or 1, bits |-> the binary digits   *)
(* of an odd natural number m, least significant first, exp |-> e] stands  *)
(* for sign * m * 2^e; zero has no bits.  A double has at most 53 bits.    *)
(* Only + , - and the comparisons are defined on this form.                *)

\* the significand of a double: 52 stored bits and the implicit one
Precision == 52 + 1

IsDouble(x) == "bits" \in DOMAIN x

BBit(a, i) == IF i <= Len(a) THEN a[i] ELSE 0

\* a natural number without its leading zeros
BTrim(a) ==
  IF \A i \in 1..Len(a) : a[i] = 0 THEN <<>>
  ELSE SubSeq(a, 1, CHOOSE i \in 1..Len(a) :
                      a[i] = 1 /\ \A j \in (i + 1)..Len(a) : a[j] = 0)

\* the carry into digit i of a + b: a digit below it where both have a one,
\* and between the two no digit where both have a zero
Carry(a, b, i) ==
  IF \E j \in 1..(i - 1) :
       /\ BBit(a, j) + BBit(b, j) = 2
       /\ \A k \in (j + 1)..(i - 1) : BBit(a, k) + BBit(b, k) = 1
  THEN 1 ELSE 0

\* a + b of two naturals
BAdd(a, b) ==
  LET n == IF Len(a) < Len(b) THEN Len(b) ELSE Len(a)
  IN  BTrim([i \in 1..(n + 1) |-> (BBit(a, i) + BBit(b, i) + Carry(a, b, i)) % 2])

\* the borrow from digit i of a - b: a digit below it where a has a zero and
\* b a one, and between the two no digit where the two differ
Borrow(a, b, i) ==
  IF \E j \in 1..(i - 1) :
       /\ BBit(a, j) < BBit(b, j)
       /\ \A k \in (j + 1)..(i - 1) : BBit(a, k) = BBit(b, k)
  THEN 1 ELSE 0

\* a - b of two naturals, a >= b
BSub(a, b) ==
  BTrim([i \in 1..Len(a) |-> (BBit(a, i) - BBit(b, i) - Borrow(a, b, i)) % 2])

\* a < b of two naturals without leading zeros
BLess(a, b) ==
  IF Len(a) # Len(b) THEN Len(a) < Len(b)
  ELSE \E i \in 1..Len(a) :
         /\ a[i] < b[i]
         /\ \A j \in (i + 1)..Len(a) : a[j] = b[j]

\* a * 2^k
BShl(a, k) == [i \in 1..(Len(a) + k) |-> IF i <= k THEN 0 ELSE a[i - k]]

\* sign * m * 2^e with m made odd
Canon(sign, m, e) ==
  LET t == BTrim(m)
  IN  IF t = <<>> THEN [sign |-> 0, bits |-> <<>>, exp |-> 0]
      ELSE LET z == CHOOSE i \in 1..Len(t) : t[i] = 1 /\ \A j \in 1..(i - 1) : t[j] = 0
           IN  [sign |-> sign, bits |-> SubSeq(t, z, Len(t)), exp |-> e + z - 1]

\* the exact sum of two doubles, which may have more than 53 bits
XAdd(x, y) ==
  IF x.sign = 0 THEN y
  ELSE IF y.sign = 0 THEN x
  ELSE LET e == IF x.exp < y.exp THEN x.exp ELSE y.exp
           a == BShl(x.bits, x.exp - e)
           b == BShl(y.bits, y.exp - e)
       IN  IF x.sign = y.sign THEN Canon(x.sign, BAdd(a, b), e)
           ELSE IF BLess(a, b) THEN Canon(y.sign, BSub(b, a), e)
           ELSE Canon(x.sign, BSub(a, b), e)

\* round to nearest, ties to even
RoundDouble(v) ==
  LET n == Len(v.bits)
      drop == n - Precision
  IN  IF drop <= 0 THEN v
      ELSE LET kept == SubSeq(v.bits, drop + 1, n)
               guard == v.bits[drop]
               sticky == \E i \in 1..(drop - 1) : v.bits[i] = 1
               up == guard = 1 /\ (sticky \/ kept[1] = 1)
           IN  Canon(v.sign, IF up THEN BAdd(kept, <<1>>) ELSE kept, v.exp + drop)

DNeg(x) == [x EXCEPT !.sign = -x.sign]

\* x + y of two doubles
DAdd(x, y) == RoundDouble(XAdd(x, y))

\* the binary digits of a natural number k
RECURSIVE BitsOf(_)
BitsOf(k) == IF k = 0 THEN <<>> ELSE <<k % 2>> \o BitsOf(k \div 2)

\* the double k * 2^e, for an integer k
Dy(k, e) == Canon(Sign(k), BitsOf(Abs(k)), e)

\* 2^i modulo d
RECURSIVE Pow2Mod(_, _)
Pow2Mod(i, d) ==
  IF i = 0 THEN 1 % d
  ELSE IF i % 2 = 0 THEN (Pow2Mod(i \div 2, d) * Pow2Mod(i \div 2, d)) % d
  ELSE (2 * Pow2Mod(i - 1, d)) % d

\* digit i of n / d after the binary point, 0 < n < d < 2^15
DigitAt(n, d, i) == (2 * ((n * Pow2Mod(i - 1, d)) % d)) \div d

\* the double a decimal literal n/d, 0 < n < d, denotes, the nearest one:
\* its digits down to two more than a double holds, and below them a one
\* if more follow
Lit(n, d) ==
  LET first == CHOOSE i \in 1..15 : DigitAt(n, d, i) = 1 /\ \A j \in 1..(i - 1) : DigitAt(n, d, j) = 0
      k == first + Precision + 1
      digits == [i \in 1..k |-> DigitAt(n, d, k + 1 - i)]
  IN  IF (n * Pow2Mod(k, d)) % d = 0 THEN RoundDouble(Canon(1, digits, -k))
      ELSE RoundDouble(Canon(1, <<1>> \o digits, -(k + 1)))

(* + , - and < on either form of number *)

Add(x, y) == IF IsDouble(x) THEN DAdd(x, y) ELSE QAdd(x, y)

Neg(x) == IF IsDouble(x) THEN DNeg(x) ELSE QNeg(x)

Sub(x, y) == Add(x, Neg(y))

Lt(x, y) ==
  IF IsDouble(x) THEN XAdd(x, DNeg(y)).sign < 0 ELSE QAdd(x, QNeg(y)).n < 0

Le(x, y) ==
  IF IsDouble(x) THEN XAdd(x, DNeg(y)).sign <= 0 ELSE QAdd(x, QNeg(y)).n <= 0

AbsQ(x) == [n |-> Abs(x.n), d |-> x.d]

Min2(x, y) == IF Lt(y, x) THEN y ELSE x

Max2(x, y) == IF Lt(x, y) THEN y ELSE x

Min3(x, y, z) == Min2(x, Min2(y, z))

Max3(x, y, z) == Max2(x, Max2(y, z))

\* Math.floor
Floor(x) == I(x.n \div x.d)

\* Math.round: the nearest integer, a tie going up
Round(x) == (2 * x.n + x.d) \div (2 * x.d)

----------------------------------------------------------------------------
(* Number literals of the source *)

Zero == I(0)

One == I(1)

Half == Q(1, 2)

\* 0xff
xFF == I(255)

(* BlendMode: the catalog of colour combinators (b: base, t: top) *)

\* Math.sqrt of a perfect square; the model draws no other argument
Sqrt(x) ==
  LET rn == CHOOSE k \in 0..x.n : k * k = x.n
      rd == CHOOSE k \in 1..x.d : k * k = x.d
  IN  Q(rn, rd)

HasSqrt(x) ==
  /\ x.n >= 0
  /\ \E k \in 0..x.n : k * k = x.n
  /\ \E k \in 1..x.d : k * k = x.d

LIGHTER(b, t) == Add(b, t)

MULTIPLE(b, t) == Mul(b, t)

\* SCREEN without its product term
SCREENNoProduct(b, t) == Add(b, t)

SCREEN(b, t) == Sub(Add(b, t), Mul(b, t))

OVERLAY(b, t) ==
  IF Lt(b, Half) THEN Mul(I(2), Mul(b, t))
  ELSE Sub(Mul(I(2), Sub(Add(b, t), Mul(b, t))), One)

HARDLIGHT(b, t) ==
  IF Lt(t, Half) THEN Mul(I(2), Mul(b, t))
  ELSE Sub(Mul(I(2), Sub(Add(b, t), Mul(b, t))), One)

SOFTLIGHT(b, t) ==
  IF Lt(t, Half)
  THEN Add(Mul(I(2), Mul(b, t)), Mul(Mul(b, b), Sub(One, Mul(I(2), t))))
  ELSE Add(Mul(Mul(I(2), b), Sub(One, t)), Mul(Sqrt(b), Sub(Mul(I(2), t), One)))

DIFFERENCE(b, t) == AbsQ(Sub(t, b))

BlendModeNames ==
  {"LIGHTER", "MULTIPLE", "SCREEN", "OVERLAY", "HARDLIGHT", "SOFTLIGHT", "DIFFERENCE"}

\* calling the combinator BlendMode[name]
BlendMode(name, b, t) ==
  CASE name = "LIGHTER" -> LIGHTER(b, t)
    [] name = "MULTIPLE" -> MULTIPLE(b, t)
    [] name = "SCREEN" -> SCREEN(b, t)
    [] name = "OVERLAY" -> OVERLAY(b, t)
    [] name = "HARDLIGHT" -> HARDLIGHT(b, t)
    [] name = "SOFTLIGHT" -> SOFTLIGHT(b, t)
    [] name = "DIFFERENCE" -> DIFFERENCE(b, t)

(* AlphaBlendMode: the catalog of alpha combinators *)

MAX(b, t) == Max2(b, t)

XOR(b, t) == AbsQ(Sub(t, b))

AlphaBlendModeNames == {"MAX", "XOR"}

AlphaBlendMode(name, b, t) ==
  CASE name = "MAX" -> MAX(b, t)
    [] name = "XOR" -> XOR(b, t)

----------------------------------------------------------------------------
(* Color: the stored record and the pure part of each method.  p is the   *)
(* record getPrivates(this) returns.                                       *)

\* what the constructor stores
Color(r, g, b, a) == [r |-> r, g |-> g, b |-> b, a |-> a]

\* an omitted argument: a number left out, a combinator left out
Undefined == [undefined |-> TRUE]

Omitted == "omitted"

AlphaOr1(a) == IF a = Undefined THEN One ELSE a

RGB(r, g, b, a) == Color(r, g, b, AlphaOr1(a))

\* get rgb
rgb(p) == [r |-> p.r, g |-> p.g, b |-> p.b, alpha |-> p.a]

\* the hue both get hsv and get hsl compute, before wrapping
Hue(p) ==
  LET MAXc == Max3(p.r, p.g, p.b)
      MINc == Min3(p.r, p.g, p.b)
      DELTA == Sub(MAXc, MINc)
  IN  IF Le(DELTA, Zero) THEN Zero
      ELSE IF Le(MAXc, p.r) THEN Mul(Div(Sub(p.g, p.b), DELTA), I(60))
      ELSE IF Le(MAXc, p.g) THEN Mul(Add(Div(Sub(p.b, p.r), DELTA), I(2)), I(60))
      ELSE Mul(Sub(Div(Sub(p.r, p.g), DELTA), I(2)), I(60))

\* x - 360 * Math.floor(x / 360)
Wrap360(x) == Sub(x, Mul(I(360), Floor(Div(x, I(360)))))

\* get hsv
hsv(p) ==
  LET MAXc == Max3(p.r, p.g, p.b)
      MINc == Min3(p.r, p.g, p.b)
      DELTA == Sub(MAXc, MINc)
  IN  [h |-> Wrap360(Hue(p)),
       s |-> IF MAXc.n # 0 THEN Div(DELTA, MAXc) ELSE Zero,
       v |-> Div(MAXc, xFF),
       alpha |-> p.a]

\* get hsl
hsl(p) ==
  LET MAXc == Max3(p.r, p.g, p.b)
      MINc == Min3(p.r, p.g, p.b)
      DELTA == Sub(MAXc, MINc)
      CNT == Div(Add(MAXc, MINc), I(2))
  IN  [h |-> Wrap360(Hue(p)),
       s |-> IF DELTA.n # 0 THEN Div(DELTA, Sub(xFF, AbsQ(Sub(CNT, xFF)))) ELSE Zero,
       l |-> Div(CNT, xFF),
       alpha |-> p.a]

\* a decimal literal with seven fractional digits, given as its digits
Dec7(k) == Q(k, 10000000)

\* the RGB -> XYZ matrix of get xyz, in units of 10^-7
MatXYZ ==
  << <<4124564, 3575761, 1804375>>,
     <<2126729, 7151522,  721750>>,
     << 193339, 1191920, 9503041>> >>

\* the XYZ -> RGB matrix with two digits of one coefficient exchanged
MatRGBTypo ==
  << << 32404542, -15371835, -4985314>>,
     << -9692660,  18760108,   415560>>,
     <<   556434,  -2040259, 10572252>> >>

\* the XYZ -> RGB matrix of Color.XYZ, in units of 10^-7
MatRGB ==
  << << 32404542, -15371385, -4985314>>,
     << -9692660,  18760108,   415560>>,
     <<   556434,  -2040259, 10572252>> >>

Row(m, i, x, y, z) ==
  Add(Add(Mul(Dec7(m[i][1]), x), Mul(Dec7(m[i][2]), y)), Mul(Dec7(m[i][3]), z))

\* get xyz
xyz(p) ==
  [x |-> Row(MatXYZ, 1, p.r, p.g, p.b),
   y |-> Row(MatXYZ, 2, p.r, p.g, p.b),
   z |-> Row(MatXYZ, 3, p.r, p.g, p.b),
   alpha |-> p.a]

\* get Yxy
Yxy(p) ==
  LET XYZ == xyz(p)
      totalStimuli == Add(Add(XYZ.x, XYZ.y), XYZ.z)
  IN  [Y |-> XYZ.y,
       x |-> Div(XYZ.x, totalStimuli),
       y |-> Div(XYZ.y, totalStimuli),
       alpha |-> p.a]

\* the D65 reference white, as the literals 95.047, 100.000, 108.883
D65 == [x |-> Q(95047, 1000), y |-> I(100), z |-> Q(108883, 1000)]

\* get Lab.  Math.cbrt has no rational value, so each field is kept as the
\* expression the getter evaluates over this.xyz, not as a number.
Lab(p) ==
  LET XYZ == xyz(p)
      r == [x |-> <<"/", XYZ.x, D65.x>>,
            y |-> <<"/", XYZ.y, D65.y>>,
            z |-> <<"/", XYZ.z, D65.z>>]
      f(l) == <<"f", l>>
  IN  [L |-> <<"-", <<"*", 116, f(r.y)>>, 16>>,
       a |-> <<"*", 500, <<"-", f(r.x), f(r.y)>>>>,
       b |-> <<"*", 200, <<"-", f(r.y), f(r.z)>>>>,
       alpha |-> p.a]

\* _clip of Color.HSV / Color.HSL
Clip01(n) == IF Le(n, Zero) THEN Zero ELSE IF Lt(One, n) THEN One ELSE n

\* Math.min(1.0, Math.max(0.0, x))
Clamp01(x) == Min2(One, Max2(Zero, x))

\* _f of Color.HSV / Color.HSL: the tent function around a channel's centre
Tent(h, center, MAXc, MINc) ==
  Add(Mul(Clip01(Sub(Div(AbsQ(Sub(Wrap360(Sub(h, I(center))), I(180))), I(60)), One)),
          Sub(MAXc, MINc)),
      MINc)

\* Color.HSV
HSV(h, s, v, a) ==
  LET s_ == Clamp01(s)
      v_ == Clamp01(v)
      MAXc == v_
      MINc == Mul(MAXc, Sub(One, s_))
  IN  RGB(Tent(h, 0, MAXc, MINc), Tent(h, 120, MAXc, MINc), Tent(h, 240, MAXc, MINc), a)

\* Color.HSL
HSL(h, s, l, a) ==
  LET s_ == Clamp01(s)
      l_ == Clamp01(l)
      D == Mul(Sub(Half, AbsQ(Sub(l, Half))), s_)
      MAXc == Add(l_, D)
      MINc == Sub(l_, D)
  IN  RGB(Tent(h, 0, MAXc, MINc), Tent(h, 120, MAXc, MINc), Tent(h, 240, MAXc, MINc), a)

\* getComplementary reflecting about the maximum alone
getComplementaryMaxOnly(p) ==
  LET onlyMax == Max3(p.r, p.g, p.b)
  IN  RGB(Sub(onlyMax, p.r), Sub(onlyMax, p.g), Sub(onlyMax, p.b), p.a)

\* getComplementary
getComplementary(p) ==
  LET minPlusMax == Add(Min3(p.r, p.g, p.b), Max3(p.r, p.g, p.b))
  IN  RGB(Sub(minPlusMax, p.r), Sub(minPlusMax, p.g), Sub(minPlusMax, p.b), p.a)

\* the default parameters of blend
BlendModeOr(m) == IF m = Omitted THEN "LIGHTER" ELSE m

AlphaBlendModeOr(m) == IF m = Omitted THEN "MAX" ELSE m

\* blend with the other colour taken as the base
blendSwapped(p, o, blendMode, alphaBlendMode) ==
  LET thisRGB == rgb(o)
      anotherRGB == rgb(p)
      bm == BlendModeOr(blendMode)
      am == AlphaBlendModeOr(alphaBlendMode)
  IN  RGB(BlendMode(bm, thisRGB.r, anotherRGB.r),
          BlendMode(bm, thisRGB.g, anotherRGB.g),
          BlendMode(bm, thisRGB.b, anotherRGB.b),
          AlphaBlendMode(am, thisRGB.alpha, anotherRGB.alpha))

\* blend: p is this (base), o is another (top)
blend(p, o, blendMode, alphaBlendMode) ==
  LET thisRGB == rgb(p)
      anotherRGB == rgb(o)
      bm == BlendModeOr(blendMode)
      am == AlphaBlendModeOr(alphaBlendMode)
  IN  RGB(BlendMode(bm, thisRGB.r, anotherRGB.r),
          BlendMode(bm, thisRGB.g, anotherRGB.g),
          BlendMode(bm, thisRGB.b, anotherRGB.b),
          AlphaBlendMode(am, thisRGB.alpha, anotherRGB.alpha))

\* clip with Math.min and Math.max exchanged
clipSwapped(p) ==
  LET c(x) == Max2(One, Min2(Zero, x))
  IN  Color(c(p.r), c(p.g), c(p.b), c(p.a))

\* clip
clip(p) == Color(Clamp01(p.r), Clamp01(p.g), Clamp01(p.b), Clamp01(p.a))

HexDigits ==
  <<"0", "1", "2", "3", "4", "5", "6", "7", "8", "9", "a", "b", "c", "d", "e", "f">>

\* x.toString(16) of an integer x >= 0, as the sequence of its characters
RECURSIVE ToString16(_)
ToString16(x) ==
  IF x < 16 THEN <<HexDigits[x + 1]>>
  ELSE Append(ToString16(x \div 16), HexDigits[(x % 16) + 1])

\* str.slice(-2)
SliceLast2(str) ==
  IF Len(str) <= 2 THEN str ELSE SubSeq(str, Len(str) - 1, Len(str))

\* h of toHex without the padding
HexByteNoPad(x) == ToString16(x)

\* h of toHex
HexByte(x) == SliceLast2(<<"0">> \o ToString16(x))

\* whether toHex leaves the alpha byte out
OmitsAlpha(a) == a = 255

\* toHex, as the sequence of the characters of the string
toHex(p) ==
  LET clippedRGB == rgb(clip(p))
      r == Round(Mul(clippedRGB.r, xFF))
      g == Round(Mul(clippedRGB.g, xFF))
      b == Round(Mul(clippedRGB.b, xFF))
      a == Round(Mul(clippedRGB.alpha, xFF))
  IN  IF OmitsAlpha(a) THEN <<"#">> \o HexByte(r) \o HexByte(g) \o HexByte(b)
      ELSE <<"#">> \o HexByte(r) \o HexByte(g) \o HexByte(b) \o HexByte(a)

\* toString: the pieces of the template literal, numbers left unformatted
toString(p) ==
  IF p.a = One THEN <<"rgb(", p.r, ", ", p.g, ", ", p.b, ")">>
  ELSE <<"rgba(", p.r, ", ", p.g, ", ", p.b, ", ", p.a, ")">>

----------------------------------------------------------------------------
(* Color.XYZ.  Its products have fourteen fractional digits, more than a   *)
(* 32-bit integer holds next to a denominator, so the                      *)
(* channels it stores are exact fixed-point numbers                        *)
(*   [w |-> <<A, B, C>>, den |-> L]  =  (A*10^8 + B*10^4 + C) / (10^7 * L) *)
(* with 0 <= B, C < 10^4.                                                  *)

Limb == 10 ^ 4

\* c * n, for integers below 10^8 in size
WMul(c, n) ==
  LET c1 == c \div Limb
      c0 == c % Limb
      n1 == n \div Limb
      n0 == n % Limb
  IN  <<c1 * n1, c1 * n0 + c0 * n1, c0 * n0>>

WAdd(u, v) == <<u[1] + v[1], u[2] + v[2], u[3] + v[3]>>

WNeg(u) == <<-u[1], -u[2], -u[3]>>

WScale(u, k) == <<u[1] * k, u[2] * k, u[3] * k>>

\* the carries taken
WNorm(u) ==
  LET b == u[2] + (u[3] \div Limb)
  IN  <<u[1] + (b \div Limb), b % Limb, u[3] % Limb>>

LCM(a, b) == (a \div GCD(a, b)) * b

\* one row of the matrix applied to x, y, z
WRow(m, i, x, y, z) ==
  LET L == LCM(LCM(x.d, y.d), z.d)
  IN  [w |-> WNorm(WAdd(WAdd(WMul(m[i][1], x.n * (L \div x.d)),
                             WMul(m[i][2], y.n * (L \div y.d))),
                        WMul(m[i][3], z.n * (L \div z.d)))),
       den |-> L]

\* Color.XYZ
XYZ(x, y, z, a) ==
  RGB(WRow(MatRGB, 1, x, y, z), WRow(MatRGB, 2, x, y, z), WRow(MatRGB, 3, x, y, z), a)

----------------------------------------------------------------------------
(* Identifier resolution.  The module is strict-mode code: reading an      *)
(* identifier that no scope binds throws a ReferenceError.                 *)

\* the bindings of the module scope of Color.js
ModuleBindings ==
  {"BlendMode", "AlphaBlendMode", "_privates", "getPrivates", "D65", "EPSILON",
   "KAPPA", "dr", "ur", "uv", "Color"}

\* the module-scope identifiers each method reads when it runs
Identifiers(op) ==
  CASE op = "RGB" -> {"Color", "getPrivates", "_privates"}
    [] op = "HSV" -> {"Color"}
    [] op = "HSL" -> {"Color"}
    [] op = "XYZ" -> {"Color"}
    [] op = "Luv" -> {"KAPPA", "EPSILON", "ur", "vr", "Color"}
    [] op = "rgb" -> {"getPrivates", "_privates"}
    [] op = "hsv" -> {"getPrivates", "_privates"}
    [] op = "hsl" -> {"getPrivates", "_privates"}
    [] op = "xyz" -> {"getPrivates", "_privates"}
    [] op = "Yxy" -> {"getPrivates", "_privates"}
    [] op = "Lab" -> {"getPrivates", "_privates", "D65", "EPSILON", "KAPPA"}
    [] op = "Luv view" -> {"getPrivates", "_privates", "D65", "EPSILON", "KAPPA", "ur", "vr"}
    [] op = "getComplementary" -> {"getPrivates", "_privates", "Color"}
    [] op = "blend" -> {"BlendMode", "AlphaBlendMode", "getPrivates", "_privates", "Color"}
    [] op = "clip" -> {"getPrivates", "_privates", "Color"}
    [] op = "toHex" -> {"getPrivates", "_privates", "Color"}
    [] op = "toString" -> {"getPrivates", "_privates"}

\* how a call of op ends
Outcome(op) ==
  IF Identifiers(op) \subseteq ModuleBindings THEN "returned" ELSE "ReferenceError"

----------------------------------------------------------------------------
(* Bounds and inputs *)

\* how many Color objects a run creates
MaxColors == 2

\* the same, for the runs that only construct and combine
MaxChain == 3

\* the same, for the runs that convert between colour models
MaxConv == 2

\* the same, for the runs on doubles
MaxDouble == 3

\* r, g, b, a of Color.RGB; Undefined is an omitted alpha
RGBInputs ==
  { <<Q(1, 4), Q(1, 2), Q(3, 4), Q(1, 2)>>,
    <<Q(3, 2), Q(-1, 2), I(1), Undefined>>,
    <<Q(1, 4), I(1), I(0), Q(3, 4)>> }

\* two of them, for the runs that call every method
FewInputs ==
  { <<Q(1, 4), Q(1, 2), Q(3, 4), Q(1, 2)>>,
    <<Q(3, 2), Q(-1, 2), I(1), Undefined>> }

\* r, g, b, a of Color.RGB as doubles: the decimal literals 0, 0.1, 0.4 and
\* 0.2, 0.3, 0.7 with alpha 0.9, sums of a few powers of two, inside [0,1]
\* and outside, and a channel far smaller than the others
DoubleInputs ==
  { <<Dy(0, 0), Lit(1, 10), Lit(2, 5), Undefined>>,
    <<Lit(1, 5), Lit(3, 10), Lit(7, 10), Lit(9, 10)>>,
    <<Dy(1, -2), Dy(1, -1), Dy(3, -2), Dy(1, -1)>>,
    <<Dy(3, -1), Dy(-1, -1), Dy(1, 0), Undefined>>,
    <<Dy(1, -54), Dy(1, -2), Dy(1, 0), Undefined>> }

\* the inputs of the conversion runs: the corners and some inner points of
\* the unit cube, an alpha just below 1, and colours outside [0,1]
ConvInputs ==
  { <<I(0), I(0), I(0), I(0)>>,
    <<I(1), I(1), I(1), Undefined>>,
    <<I(1), I(0), I(0), Q(1, 2)>>,
    <<I(0), I(1), I(0), Q(1023, 1024)>>,
    <<Q(1, 4), Q(1, 2), Q(3, 4), Q(1, 64)>>,
    <<Q(3, 2), Q(-1, 2), Q(1, 2), Q(3, 2)>> }

\* h, s, v, a of Color.HSV
HSVInputs ==
  { <<I(0), I(1), I(1), Undefined>>,
    <<I(90), Q(1, 2), Q(3, 4), Q(1, 2)>>,
    <<I(400), I(2), Q(1, 2), Undefined>>,
    <<I(-30), Q(1, 2), Q(-1, 2), Undefined>> }

\* h, s, l, a of Color.HSL
HSLInputs ==
  { <<I(0), I(1), Q(1, 2), Undefined>>,
    <<I(90), Q(1, 2), Q(1, 4), Q(1, 2)>>,
    <<I(0), I(1), Q(3, 2), Undefined>>,
    <<I(200), Q(3, 2), Q(-1, 2), Undefined>> }

\* L, u, v, alpha of Color.Luv
LuvInputs == { <<I(50), I(0), I(0), Undefined>>, <<I(0), I(10), I(-10), Q(1, 2)>> }

\* blendMode and alphaBlendMode of the calls of blend: every combinator of
\* the channels with MAX, some with XOR, and one or both left out
BlendCalls ==
  {<<m, "MAX">> : m \in BlendModeNames}
    \cup {<<"MULTIPLE", "XOR">>, <<"OVERLAY", "XOR">>, <<"DIFFERENCE", "XOR">>,
          <<"HARDLIGHT", Omitted>>, <<Omitted, Omitted>>}

\* what a caller assigns to a field of a record a view returned
WriteValues == { I(7) }

ViewKinds == {"rgb", "hsv", "hsl", "xyz", "Yxy", "Lab"}

----------------------------------------------------------------------------
(* State.  privates is the WeakMap _privates: the record stored for each   *)
(* Color object, objects being numbered in the order of their creation.    *)
(* made is the history of the constructions: for each object the call that *)
(* created it and the record that call stored.  ret is what the latest     *)
(* call gave its caller.                                                   *)

Objects == 1..Len(privates)

\* getPrivates(self)
getPrivates(self) == privates[self]

NoCall == [op |-> "none", this |-> 0, outcome |-> "returned", val |-> Undefined, ref |-> 0]

Init ==
  /\ privates = <<>>
  /\ made = <<>>
  /\ ret = NoCall

\* a call that throws: nothing is stored, nothing is returned
Throws(op, self) ==
  /\ ret' = [op |-> op, this |-> self, outcome |-> Outcome(op), val |-> Undefined, ref |-> 0]
  /\ UNCHANGED <<privates, made>>

\* new Color(...): a fresh object, its record stored under it, and returned
Construct(op, self, other, bm, am, args, p) ==
  IF Outcome(op) = "returned"
  THEN /\ privates' = Append(privates, p)
       /\ made' = Append(made, [op |-> op, this |-> self, other |-> other, bm |-> bm,
                                am |-> am, args |-> args, val |-> p])
       /\ ret' = [op |-> op, this |-> self, outcome |-> "returned",
                  val |-> Len(privates) + 1, ref |-> 0]
  ELSE Throws(op, self)

----------------------------------------------------------------------------
(* The calls *)

\* Color.RGB(r, g, b, a)
NewRGB(cap, inputs) ==
  \E in \in inputs :
    /\ Len(privates) < cap
    /\ Construct("RGB", 0, 0, Omitted, Omitted, in, RGB(in[1], in[2], in[3], in[4]))

\* Color.HSV(h, s, v, a)
NewHSV(cap) ==
  \E in \in HSVInputs :
    /\ Len(privates) < cap
    /\ Construct("HSV", 0, 0, Omitted, Omitted, in, HSV(in[1], in[2], in[3], in[4]))

\* Color.HSL(h, s, l, a)
NewHSL(cap) ==
  \E in \in HSLInputs :
    /\ Len(privates) < cap
    /\ Construct("HSL", 0, 0, Omitted, Omitted, in, HSL(in[1], in[2], in[3], in[4]))

\* Color.XYZ(c.xyz.x, c.xyz.y, c.xyz.z, c.xyz.alpha): the record the xyz view
\* returned last, handed back to the constructor
NewXYZ(cap) ==
  /\ Len(privates) < cap
  /\ ret.op = "xyz"
  /\ Construct("XYZ", 0, ret.this, Omitted, Omitted,
               <<ret.val.x, ret.val.y, ret.val.z, ret.val.alpha>>,
               XYZ(ret.val.x, ret.val.y, ret.val.z, ret.val.alpha))

\* Color.Luv(L, u, v, alpha)
NewLuv ==
  \E in \in LuvInputs :
    IF Outcome("Luv") = "returned"
    THEN FALSE
    ELSE Throws("Luv", 0)

\* c.getComplementary()
GetComplementary(cap) ==
  \E self \in Objects :
    /\ Len(privates) < cap
    /\ Construct("getComplementary", self, 0, Omitted, Omitted, <<>>,
                 getComplementary(getPrivates(self)))

\* whether the model can evaluate the combinator on these two colours: all
\* but a SOFTLIGHT whose square root is irrational or not real, or whose
\* cubic terms leave the 32-bit integers of this arithmetic
Evaluable(bm, p, o) ==
  bm = "SOFTLIGHT" =>
    \A ch \in {"r", "g", "b"} :
      /\ Lt(o[ch], Half) \/ HasSqrt(p[ch])
      /\ p[ch].d <= 4 /\ o[ch].d <= 4

\* c.blend(another, blendMode, alphaBlendMode), either combinator omitted or
\* not; calls is the pairs of combinators the run passes
Blend(cap, calls) ==
  \E self \in Objects, another \in Objects, call \in calls :
    /\ Len(privates) < cap
    /\ Evaluable(call[1], getPrivates(self), getPrivates(another))
    /\ Construct("blend", self, another, call[1], call[2], <<>>,
                 blend(getPrivates(self), getPrivates(another), call[1], call[2]))

\* c.clip()
Clip(cap) ==
  \E self \in Objects :
    /\ Len(privates) < cap
    /\ Construct("clip", self, 0, Omitted, Omitted, <<>>, clip(getPrivates(self)))

\* a getter handing out the stored record itself
ReturnedAlias(self, val) == [ref |-> self, val |-> val]

\* the record a getter returns: an object literal, so a fresh object that
\* shares nothing with the stored record (ref = 0)
Returned(self, val) == [ref |-> 0, val |-> val]

View(kind, p) ==
  CASE kind = "rgb" -> rgb(p)
    [] kind = "hsv" -> hsv(p)
    [] kind = "hsl" -> hsl(p)
    [] kind = "xyz" -> xyz(p)
    [] kind = "Yxy" -> Yxy(p)
    [] kind = "Lab" -> Lab(p)

\* the Colors whose channels are plain rationals (all but those Color.XYZ built)
Plain == {c \in Objects : made[c].op # "XYZ"}

\* c.rgb, c.hsv, c.hsl, c.xyz, c.Yxy, c.Lab
ReadView(kinds) ==
  \E self \in Plain, kind \in kinds :
    LET got == Returned(self, View(kind, getPrivates(self)))
    IN  /\ ret' = [op |-> kind, this |-> self, outcome |-> Outcome(kind),
                   val |-> got.val, ref |-> got.ref]
        /\ UNCHANGED <<privates, made>>

\* c.Luv
ReadLuv ==
  \E self \in Plain :
    IF Outcome("Luv view") = "returned"
    THEN FALSE
    ELSE Throws("Luv view", self)

\* rec.field = value, by the caller, on the record a view just returned.  The
\* write lands in the stored record only if the two are one object (ref # 0).
WriteField ==
  /\ ret.op \in ViewKinds
  /\ \E f \in DOMAIN ret.val, v \in WriteValues :
       /\ ret' = [ret EXCEPT !.op = "write", !.val[f] = v]
       /\ privates' = IF ret.ref = 0 \/ f \notin DOMAIN privates[ret.ref] THEN privates
                      ELSE [privates EXCEPT ![ret.ref][f] = v]
       /\ UNCHANGED made

\* c.toHex()
ToHex ==
  \E self \in Plain :
    /\ ret' = [op |-> "toHex", this |-> self, outcome |-> Outcome("toHex"),
               val |-> toHex(getPrivates(self)), ref |-> 0]
    /\ UNCHANGED <<privates, made>>

\* c.toString()
CallToString ==
  \E self \in Plain :
    /\ ret' = [op |-> "toString", this |-> self, outcome |-> Outcome("toString"),
               val |-> toString(getPrivates(self)), ref |-> 0]
    /\ UNCHANGED <<privates, made>>

----------------------------------------------------------------------------
(* Specifications *)

\* every method on a few objects
Next ==
  \/ NewRGB(MaxColors, FewInputs)
  \/ NewLuv
  \/ GetComplementary(MaxColors)
  \/ Blend(MaxColors, {<<Omitted, Omitted>>, <<"OVERLAY", Omitted>>})
  \/ Clip(MaxColors)
  \/ ReadView(ViewKinds)
  \/ ReadLuv
  \/ WriteField
  \/ ToHex
  \/ CallToString

Spec == Init /\ [][Next]_vars

\* constructing and combining, three objects deep
NextOps ==
  \/ NewRGB(MaxChain, RGBInputs)
  \/ GetComplementary(MaxChain)
  \/ Blend(MaxChain, BlendCalls)
  \/ Clip(MaxChain)

SpecOps == Init /\ [][NextOps]_vars

\* getComplementary on doubles, with the rounding of every sum
NextDouble ==
  \/ NewRGB(MaxDouble, DoubleInputs)
  \/ GetComplementary(MaxDouble)

SpecDouble == Init /\ [][NextDouble]_vars

\* the conversions between colour models, and the hex string
NextConv ==
  \/ NewRGB(MaxConv, ConvInputs)
  \/ NewHSV(MaxConv)
  \/ NewHSL(MaxConv)
  \/ NewXYZ(MaxConv)
  \/ ReadView({"hsv", "hsl", "xyz"})
  \/ ToHex

SpecConv == Init /\ [][NextConv]_vars

----------------------------------------------------------------------------
(* Properties *)

InUnit(x) == Le(Zero, x) /\ Le(x, One)

InGamut(p) == InUnit(p.r) /\ InUnit(p.g) /\ InUnit(p.b) /\ InUnit(p.a)

Derived == {"getComplementary", "blend", "clip"}

\* C1: a Color is immutable.  Whatever has been called since (views read,
\* fields of a returned record written, getComplementary, clip, toHex,
\* toString, blend with the Color as base or as top), the record stored for
\* every Color is the one its construction stored; and the Color that
\* getComplementary, clip or blend returns is a new object, neither operand.
Immutable ==
  /\ \A c \in Objects : getPrivates(c) = made[c].val
  /\ ret.op \in Derived => ret.val \notin {ret.this, made[ret.val].other}

\* a Color was clipped to a different Color, then a view of it was read and a
\* field of the returned record overwritten
ImmutableWitness ==
  /\ ret.op = "write"
  /\ \E c \in Objects :
       /\ made[c].op = "clip"
       /\ made[c].this = ret.this
       /\ getPrivates(c) # getPrivates(ret.this)

\* C2: no operation throws: every call returns a value.
NoOperationThrows == ret.outcome = "returned"

\* C3: blend applies the colour combinator to each of r, g, b with the
\* receiver as base and the other colour as top, the alpha combinator to the
\* two alphas, clamps nothing, and uses b + t and max when they are omitted.
BlendChannels ==
  \A c \in Objects :
    made[c].op = "blend" =>
      LET base == getPrivates(made[c].this)
          top == getPrivates(made[c].other)
          f(b, t) == IF made[c].bm = Omitted THEN Add(b, t) ELSE BlendMode(made[c].bm, b, t)
          g(b, t) == IF made[c].am = Omitted THEN (IF Lt(b, t) THEN t ELSE b)
                     ELSE AlphaBlendMode(made[c].am, b, t)
      IN  /\ getPrivates(c).r = f(base.r, top.r)
          /\ getPrivates(c).g = f(base.g, top.g)
          /\ getPrivates(c).b = f(base.b, top.b)
          /\ getPrivates(c).a = g(base.a, top.a)

\* two different colours blended by OVERLAY and XOR, where the order of the
\* operands shows and the result leaves [0,1]
BlendWitness ==
  \E c \in Objects :
    /\ made[c].op = "blend"
    /\ made[c].bm = "OVERLAY"
    /\ made[c].am = "XOR"
    /\ getPrivates(c) # blend(getPrivates(made[c].other), getPrivates(made[c].this),
                              "OVERLAY", "XOR")
    /\ ~InGamut(getPrivates(c))

\* the Colors that are the complement of the complement of a Color
TwiceComplemented ==
  { c \in Objects : /\ made[c].op = "getComplementary"
                    /\ made[made[c].this].op = "getComplementary" }

\* the Color a twice complemented one started from
Origin(c) == getPrivates(made[made[c].this].this)

\* C4 as stated: getComplementary is an involution, the complement of the
\* complement of a Color has exactly the r, g, b and alpha of that Color.
ComplementInvolution ==
  \A c \in TwiceComplemented : getPrivates(c) = Origin(c)

Magnitude(x) == [x EXCEPT !.sign = Abs(@)]

\* x * 2^k
Scale2(x, k) == IF x.sign = 0 THEN x ELSE [x EXCEPT !.exp = @ + k]

\* sixteen units of roundoff of the largest of |r|, |g|, |b|
Slack(p) ==
  Scale2(Max3(Magnitude(p.r), Magnitude(p.g), Magnitude(p.b)), 4 - Precision)

\* C4, amended: the complement of the complement of a Color has its alpha,
\* and each of r, g, b within the rounding of the six sums that computed it:
\* no further from the Color's than 2^-49 times the largest of |r|, |g|, |b|.
ComplementInvolutionRounded ==
  \A c \in TwiceComplemented :
    /\ getPrivates(c).a = Origin(c).a
    /\ \A ch \in {"r", "g", "b"} :
         Le(Magnitude(XAdd(getPrivates(c)[ch], DNeg(Origin(c)[ch]))), Slack(Origin(c)))

\* the complement of the complement of a Color that is not grey, one sum of
\* which was rounded: a channel is not the one the Color had
ComplementWitness ==
  \E c \in TwiceComplemented :
    /\ getPrivates(c) # getPrivates(made[c].this)
    /\ \E ch \in {"r", "g", "b"} : getPrivates(c)[ch] # Origin(c)[ch]

\* C5: clip is idempotent, and the identity on a Color already in [0,1].
ClipIdempotent ==
  \A c \in Objects :
    made[c].op = "clip" =>
      /\ made[made[c].this].op = "clip" => getPrivates(c) = getPrivates(made[c].this)
      /\ InGamut(getPrivates(made[c].this)) => getPrivates(c) = getPrivates(made[c].this)

\* a Color outside [0,1] clipped, and the result clipped again
ClipWitness ==
  \E c \in Objects :
    /\ made[c].op = "clip"
    /\ made[made[c].this].op = "clip"
    /\ ~InGamut(getPrivates(made[made[c].this].this))

\* the Colors built from inputs in [0,1] by getComplementary, clip and blend
\* with a combinator other than LIGHTER and SOFTLIGHT
NonAdditive == {"MULTIPLE", "SCREEN", "OVERLAY", "HARDLIGHT", "DIFFERENCE"}

RECURSIVE FromGamut(_)
FromGamut(c) ==
  CASE made[c].op = "RGB" -> InGamut(made[c].val)
    [] made[c].op \in {"getComplementary", "clip"} -> FromGamut(made[c].this)
    [] made[c].op = "blend" ->
         /\ made[c].bm \in NonAdditive
         /\ made[c].am \in AlphaBlendModeNames
         /\ FromGamut(made[c].this)
         /\ FromGamut(made[c].other)
    [] OTHER -> FALSE

\* C10: the Colors in [0,1] are closed under getComplementary, clip and
\* blend with MULTIPLE, SCREEN, OVERLAY, HARDLIGHT or DIFFERENCE and MAX or
\* XOR: whatever such calls build from Colors in [0,1] is in [0,1].
GamutClosed == \A c \in Objects : FromGamut(c) => InGamut(getPrivates(c))

\* a blend of a blend, all from Colors in [0,1]
GamutWitness ==
  \E c \in Objects :
    /\ FromGamut(c)
    /\ made[c].op = "blend"
    /\ made[made[c].this].op = "blend"
    /\ made[c].bm = "SCREEN"

\* the integer nearest to 255 * x for x in [0,1], the upper one of two
Byte(x) ==
  CHOOSE k \in 0..255 :
    /\ 2 * k * x.d <= 2 * 255 * x.n + x.d
    /\ 2 * 255 * x.n + x.d < 2 * (k + 1) * x.d

\* x brought into [0,1]
Saturate(x) == IF Lt(x, Zero) THEN Zero ELSE IF Lt(One, x) THEN One ELSE x

\* the two lowercase hexadecimal digits of a byte
TwoDigits(k) == <<HexDigits[(k \div 16) + 1], HexDigits[(k % 16) + 1]>>

\* "#" and the two digits of each of r, g, b
HexRGB(p) ==
  <<"#">> \o TwoDigits(Byte(Saturate(p.r))) \o TwoDigits(Byte(Saturate(p.g)))
          \o TwoDigits(Byte(Saturate(p.b)))

\* C6, as claimed: toHex gives "#" and the two-digit hex of r, g, b, and
\* appends the alpha byte exactly when the clipped alpha is not 1.
HexAlphaUnlessOne ==
  ret.op = "toHex" =>
    LET p == getPrivates(ret.this)
    IN  ret.val = IF Saturate(p.a) # One
                  THEN HexRGB(p) \o TwoDigits(Byte(Saturate(p.a)))
                  ELSE HexRGB(p)

\* C6, amended: toHex appends the alpha byte exactly when that byte, the
\* clipped alpha times 255 rounded, is not 255.
HexAlphaUnlessByte255 ==
  ret.op = "toHex" =>
    LET p == getPrivates(ret.this)
    IN  ret.val = IF Byte(Saturate(p.a)) # 255
                  THEN HexRGB(p) \o TwoDigits(Byte(Saturate(p.a)))
                  ELSE HexRGB(p)

\* toHex of a Color whose alpha is below 1 and rounds to the byte 255
HexWitness ==
  /\ ret.op = "toHex"
  /\ Lt(getPrivates(ret.this).a, One)
  /\ Byte(Saturate(getPrivates(ret.this).a)) = 255
  /\ Len(ret.val) = 7

\* |wide - x| <= 10^-6, for a fixed-point number wide and a rational x
Close(wide, x) ==
  LET g == GCD(wide.den, x.d)
      k == x.d \div g
      t == x.n * (wide.den \div g)
      target == <<(t \div Limb) * 1000, (t % Limb) * 1000, 0>>
      diff == WNorm(WAdd(WScale(wide.w, k), WNeg(target)))
  IN  /\ diff[1] \in -21..20
      /\ Abs(diff[1] * Limb * Limb + diff[2] * Limb + diff[3]) <= 10 * wide.den * k

\* C7: the XYZ round trip.  Color.XYZ of the x, y, z, alpha that the xyz
\* view of a Color in [0,1] returns has r, g, b within 10^-6 of that Color's
\* and its alpha exactly.
XYZRoundTrip ==
  \A c \in Objects :
    (made[c].op = "XYZ" /\ InGamut(getPrivates(made[c].other))) =>
      LET src == getPrivates(made[c].other)
      IN  /\ Close(getPrivates(c).r, src.r)
          /\ Close(getPrivates(c).g, src.g)
          /\ Close(getPrivates(c).b, src.b)
          /\ getPrivates(c).a = src.a

\* the round trip of a Color in [0,1] with three different channels and an
\* alpha of its own, which does not give back r exactly
XYZWitness ==
  \E c \in Objects :
    /\ made[c].op = "XYZ"
    /\ InGamut(getPrivates(made[c].other))
    /\ getPrivates(made[c].other).r # getPrivates(made[c].other).g
    /\ getPrivates(made[c].other).g # getPrivates(made[c].other).b
    /\ getPrivates(c).a = Q(1, 64)
    /\ getPrivates(c).r.w[3] # 0

\* C8: Color.HSL clamps s and l before any use: HSL(h, s, l, a) is the
\* Color HSL(h, s', l', a) of the clamped s' and l'.
HSLClampsBoth ==
  \A c \in Objects :
    made[c].op = "HSL" =>
      getPrivates(c) = HSL(made[c].args[1], Saturate(made[c].args[2]),
                           Saturate(made[c].args[3]), made[c].args[4])

\* C9: the hsv view of a Color in [0,1] has v = max(r, g, b).
HsvValueIsMax ==
  (ret.op = "hsv" /\ InGamut(getPrivates(ret.this))) =>
    LET p == getPrivates(ret.this)
    IN  /\ Le(p.r, ret.val.v) /\ Le(p.g, ret.val.v) /\ Le(p.b, ret.val.v)
        /\ ret.val.v \in {p.r, p.g, p.b}

====
